---- MODULE Spec2Model ----
(***************************************************************************)
(* Publish-subscribe services of the QF framework (qf_ps.c).                *)
(*                                                                         *)
(* The subscriber lists QF_subscrList_[sig].bits[i] are bytes; QF_publish_, *)
(* QActive_subscribe, QActive_unsubscribe and QActive_unsubscribeAll are    *)
(* modelled statement by statement: every critical section is one atomic    *)
(* action, every read of the shared subscriber list outside a critical      *)
(* section is an action of its own.  The callers are the threads of the     *)
(* registered active objects and one interrupt service routine, scheduled   *)
(* by a preemptive priority kernel with a priority-ceiling scheduler lock.  *)
(***************************************************************************)
EXTENDS Integers, Sequences, FiniteSets, TLC

(* ------------------------------------------------------------------------ *)
(* Configuration                                                            *)
(* ------------------------------------------------------------------------ *)
QF_MAX_ACTIVE == 16        \* build configuration: the (QF_MAX_ACTIVE > 8) branch
Q_USER_SIG == 4            \* first signal available to the application
MaxSignal == 7             \* the maxSignal argument given to QF_psInit
MaxCalls == 4              \* number of service calls made in one behaviour
QueueCap == 2              \* capacity of every active object's event queue
MaxNest == 2               \* number of contexts that have started and not finished

NULL == "NULL"
NoEvt == "noEvt"
LOCK_UNINIT == 255         \* (uint_fast8_t)0xFF, "set as uninitialized"

\* Q_DIM(QF_subscrList_[0].bits): the number of bytes of one subscriber list
NBytes == ((QF_MAX_ACTIVE - 1) \div 8) + 1

Byte == 0..255
BitNo == 0..7

(* ------------------------------------------------------------------------ *)
(* Byte arithmetic                                                          *)
(* ------------------------------------------------------------------------ *)
Pow2(n) == IF n = 0 THEN 1 ELSE IF n = 1 THEN 2 ELSE IF n = 2 THEN 4
           ELSE IF n = 3 THEN 8 ELSE IF n = 4 THEN 16 ELSE IF n = 5 THEN 32
           ELSE IF n = 6 THEN 64 ELSE 128

BitOf(b, n) == (b \div Pow2(n)) % 2

\* the C operators & and | on bytes, bit by bit
And1(a, b, n) == BitOf(a, n) * BitOf(b, n) * Pow2(n)
Or1(a, b, n) == (IF BitOf(a, n) + BitOf(b, n) > 0 THEN 1 ELSE 0) * Pow2(n)
BitAnd(a, b) == And1(a, b, 0) + And1(a, b, 1) + And1(a, b, 2) + And1(a, b, 3)
              + And1(a, b, 4) + And1(a, b, 5) + And1(a, b, 6) + And1(a, b, 7)
BitOr(a, b) == Or1(a, b, 0) + Or1(a, b, 1) + Or1(a, b, 2) + Or1(a, b, 3)
             + Or1(a, b, 4) + Or1(a, b, 5) + Or1(a, b, 6) + Or1(a, b, 7)

(* ------------------------------------------------------------------------ *)
(* Lookup tables and QF_LOG2 (qf_pwr2.c, not part of qf_ps.c)               *)
(* ------------------------------------------------------------------------ *)
\* QF_pwr2Lkup[p]: the bit mask of priority p inside its byte; [0] is unused
QF_pwr2Lkup(pp) == IF pp = 0 THEN 0 ELSE Pow2((pp - 1) % 8)
\* QF_invPwr2Lkup[p]: the complement of QF_pwr2Lkup[p]
QF_invPwr2Lkup(pp) == 255 - QF_pwr2Lkup(pp)
\* QF_div8Lkup[p]: the index of the byte that holds the bit of priority p.
\* The table ends at QF_MAX_ACTIVE: a read past its end yields an arbitrary
\* byte, represented by the values of PastTable.
PastTable == {0, 1, 255}
QF_div8Lkup(pp) == IF pp = 0 THEN {0}
                   ELSE IF pp <= QF_MAX_ACTIVE THEN {(pp - 1) \div 8}
                   ELSE PastTable
\* QF_LOG2(x): 1-based number of the most significant 1-bit of x, x in 1..255
QF_LOG2(x) == CHOOSE n \in 1..8 : Pow2(n - 1) <= x /\ x < 2 * Pow2(n - 1)

(* ------------------------------------------------------------------------ *)
(* Active objects, events, execution contexts                               *)
(* ------------------------------------------------------------------------ *)
\* Active-object handles and their prio fields.  ao1, ao3 and ao9 are
\* registered; the others are handles a caller can pass by mistake.
AO == {"ao1", "ao3", "ao9", "aoZero", "aoBig", "aoDup", "aoUnreg"}
prio == [a \in AO |->
           CASE a = "ao1" -> 1
             [] a = "ao3" -> 3
             [] a = "ao9" -> 9
             [] a = "aoZero" -> 0
             [] a = "aoBig" -> QF_MAX_ACTIVE + 1
             [] a = "aoDup" -> 3
             [] a = "aoUnreg" -> 2]

\* QF_active_[p]: the framework's directory of registered active objects
QF_active_ == [pp \in 0..QF_MAX_ACTIVE |->
                 CASE pp = 1 -> "ao1"
                   [] pp = 3 -> "ao3"
                   [] pp = 9 -> "ao9"
                   [] OTHER -> NULL]

\* The priorities in use
Registered == {pp \in 1..QF_MAX_ACTIVE : QF_active_[pp] # NULL}

\* Events: ePool is a dynamic event, eStat a static one with the same
\* signal, eBad carries a signal outside the configured range.
Evt == {"ePool", "eStat", "eBad"}
sigOf == [ev \in Evt |->
            CASE ev = "ePool" -> 6
              [] ev = "eStat" -> 6
              [] ev = "eBad" -> MaxSignal]
poolId_ == [ev \in Evt |-> IF ev = "eStat" THEN 0 ELSE 1]

\* Execution contexts: the thread of each registered active object, named
\* by its priority, and one interrupt service routine above all of them.
ISR == QF_MAX_ACTIVE + 1
Ctx == Registered \cup {ISR}

\* The signals the application subscribes to, and two it passes by mistake
SubSigs == {5, 6}
BadSigs == {Q_USER_SIG - 1, MaxSignal}
Sigs == 0..(MaxSignal - 1)

VARIABLES
    QF_subscrList_,   \* [sig -> [byte index -> byte]]
    QF_maxSignal_,    \* set by QF_psInit
    refCtr_,          \* e->refCtr_ of every event
    inPool,           \* TRUE while the event's block is in its event pool
    queue,            \* event queue of every registered priority
    lockCeil,         \* the scheduler's current lock ceiling
    fatal,            \* 0, or the id of the assertion that stopped the system
    pc,               \* where every context is
    cur,              \* the event a context is handling
    own,              \* the event a context has allocated and not yet published
    me, sig, e,       \* arguments of the call in progress
    p, i, tmp,        \* locals of the call in progress
    lockStat,         \* lockStat.lockPrio of the publish in progress
    calls,            \* number of service calls made so far
    done,             \* the service that returned last in the context
    posted,           \* priorities QACTIVE_POST was called for, in call order
    nInc, nGc,        \* QF_EVT_REF_CTR_INC_ / QF_gc calls of the publish itself
    mutated,          \* the subscriber lists changed during the publish
    wasSet,           \* the caller's bit before the critical section
    refOnEntry,       \* e->refCtr_ when QF_publish_ was called
    pubId,            \* the number of the publish call in progress
    qseq,             \* for every queue, the publish call that posted each entry
    stableSet,        \* priorities subscribed since the publish began
    stableClr,        \* priorities not subscribed since the publish began
    nLock, nUnlock,   \* QF_SCHED_LOCK_ / QF_SCHED_UNLOCK_ calls of the publish
    lockReq,          \* the ceiling the publish asked QF_SCHED_LOCK_ for
    ceilOnEntry,      \* the scheduler's ceiling when QF_publish_ was called
    want              \* [sig -> priorities]: the last completed update of every bit

shared == <<QF_subscrList_, QF_maxSignal_, refCtr_, inPool, queue, lockCeil, fatal>>
frame == <<me, sig, e, p, i, tmp, lockStat>>
ghost == <<done, posted, nInc, nGc, mutated, wasSet, refOnEntry>>
sched == <<cur, own, calls>>
hist == <<pubId, qseq, stableSet, stableClr, nLock, nUnlock, lockReq,
          ceilOnEntry, want>>
vars == <<shared, pc, sched, frame, ghost, hist>>

(* ------------------------------------------------------------------------ *)
(* Statements of qf_ps.c                                                    *)
(* ------------------------------------------------------------------------ *)
\* a range check that lets the signal QF_maxSignal_ itself through
PublishPre_inclusive(ev) == sigOf[ev] <= QF_maxSignal_

\* Q_REQUIRE_ID(200, e->sig < (QSignal)QF_maxSignal_)
PublishPre(ev) == sigOf[ev] < QF_maxSignal_

\* a publish that takes no reference of its own
PublishRefCtr_noIncrement(ev, rc) == rc

\* a publish that counts a reference for a static event as well
PublishRefCtr_anyPool(ev, rc) == (rc + 1) % 256

\* if (e->poolId_ != 0) { QF_EVT_REF_CTR_INC_(e); }   (refCtr_ is a uint8_t)
PublishRefCtr(ev, rc) == IF poolId_[ev] # 0 THEN (rc + 1) % 256 ELSE rc

\* a traversal that starts one byte too low
PublishFirstByte_offByOne == NBytes - 1

\* uint_fast8_t i = (uint_fast8_t)Q_DIM(QF_subscrList_[0].bits);
PublishFirstByte == NBytes

\* a traversal that forgets the byte index
PublishPrio_noByteIndex(bitNo, idx) == bitNo

\* p += (uint_fast8_t)(i << 3): bit number to priority
PublishPrio(bitNo, idx) == bitNo + idx * 8

\* a traversal that drops the rest of the byte with the bit it found
PublishRemoveBit_clearsByte(b, bitNo) == 0

\* tmp &= (uint_fast8_t)QF_invPwr2Lkup[p]
PublishRemoveBit(b, bitNo) == BitAnd(b, QF_invPwr2Lkup(bitNo))

\* a traversal that locks the scheduler for every subscriber
PublishNotLocked_always(lp) == TRUE

\* a traversal that never locks the scheduler
PublishNotLocked_never(lp) == FALSE

\* if (lockStat.lockPrio == (uint_fast8_t)0xFF)
PublishNotLocked(lp) == lp = LOCK_UNINIT

\* an unlock under the inverted test
PublishWasLocked_inverted(lp) == lp > QF_MAX_ACTIVE

\* if (lockStat.lockPrio <= (uint_fast8_t)QF_MAX_ACTIVE)
PublishWasLocked(lp) == lp <= QF_MAX_ACTIVE

\* a precondition that does not look at the directory
SubscribePre_noDirectory(m, s) ==
    /\ Q_USER_SIG <= s
    /\ s < QF_maxSignal_
    /\ 0 < prio[m]
    /\ prio[m] <= QF_MAX_ACTIVE

\* a precondition without the lower bound of the signal
SubscribePre_noUserSig(m, s) ==
    /\ s < QF_maxSignal_
    /\ 0 < prio[m]
    /\ prio[m] <= QF_MAX_ACTIVE
    /\ QF_active_[prio[m]] = m

\* Q_REQUIRE_ID(300, ...) of QActive_subscribe
SubscribePre(m, s) ==
    /\ Q_USER_SIG <= s
    /\ s < QF_maxSignal_
    /\ 0 < prio[m]
    /\ prio[m] <= QF_MAX_ACTIVE
    /\ QF_active_[prio[m]] = m

\* Q_REQUIRE_ID(400, ...) of QActive_unsubscribe
UnsubscribePre(m, s) ==
    /\ Q_USER_SIG <= s
    /\ s < QF_maxSignal_
    /\ 0 < prio[m]
    /\ prio[m] <= QF_MAX_ACTIVE
    /\ QF_active_[prio[m]] = m

\* Q_REQUIRE_ID(500, ...) of QActive_unsubscribeAll
UnsubscribeAllPre(m) ==
    /\ 0 < prio[m]
    /\ prio[m] <= QF_MAX_ACTIVE
    /\ QF_active_[prio[m]] = m

\* a subscribe that toggles the bit
SubscribeBits_toggle(b, pp) ==
    IF BitAnd(b, QF_pwr2Lkup(pp)) # 0 THEN b - QF_pwr2Lkup(pp)
    ELSE b + QF_pwr2Lkup(pp)

\* a subscribe that assigns the mask instead of OR-ing it in
SubscribeBits_overwrite(b, pp) == QF_pwr2Lkup(pp)

\* QF_PTR_AT_(QF_subscrList_, sig).bits[i] |= QF_pwr2Lkup[p]
SubscribeBits(b, pp) == BitOr(b, QF_pwr2Lkup(pp))

\* an unsubscribe that masks with the wrong table
UnsubscribeBits_wrongTable(b, pp) == BitAnd(b, QF_pwr2Lkup(pp))

\* QF_PTR_AT_(QF_subscrList_, sig).bits[i] &= QF_invPwr2Lkup[p]
UnsubscribeBits(b, pp) == BitAnd(b, QF_invPwr2Lkup(pp))

\* a test of the bit with the complement mask
UnsubscribeAllTest_wrongMask(b, pp) == BitAnd(b, QF_invPwr2Lkup(pp)) # 0

\* (QF_PTR_AT_(QF_subscrList_, sig).bits[i] & QF_pwr2Lkup[p]) != (uint8_t)0
UnsubscribeAllTest(b, pp) == BitAnd(b, QF_pwr2Lkup(pp)) # 0

\* QF_PTR_AT_(QF_subscrList_, sig).bits[i] &= QF_invPwr2Lkup[p]
UnsubscribeAllBits(b, pp) == BitAnd(b, QF_invPwr2Lkup(pp))

\* a loop that advances by two signals
UnsubscribeAllNext_skip(s) == s + 2

\* for (...; sig < QF_maxSignal_; ++sig)
UnsubscribeAllNext(s) == s + 1

(* ------------------------------------------------------------------------ *)
(* Collaborators: event pool, event queues, scheduler                       *)
(* ------------------------------------------------------------------------ *)
\* QF_gc(e): drop one reference; recycle the block with the last one
GcRefCtr(ev) == IF poolId_[ev] = 0 THEN refCtr_
                ELSE [refCtr_ EXCEPT ![ev] = IF @ > 1 THEN @ - 1 ELSE 0]
GcInPool(ev) == IF poolId_[ev] # 0 /\ refCtr_[ev] <= 1
                THEN [inPool EXCEPT ![ev] = TRUE] ELSE inPool

\* a publish that returns without running the garbage collector
PublishGc_omitted(ev) == <<refCtr_, inPool>>

\* a publish that recycles the event whoever else holds it
PublishGc_dropsAll(ev) ==
    IF poolId_[ev] = 0 THEN <<refCtr_, inPool>>
    ELSE <<[refCtr_ EXCEPT ![ev] = 0], [inPool EXCEPT ![ev] = TRUE]>>

\* QF_gc(e) at the end of QF_publish_: the new reference counters and pool
PublishGc(ev) == <<GcRefCtr(ev), GcInPool(ev)>>

\* QACTIVE_POST(): the queue takes a reference to a dynamic event
PostRefCtr(ev) == IF poolId_[ev] = 0 THEN refCtr_
                  ELSE [refCtr_ EXCEPT ![ev] = (@ + 1) % 256]

\* QF_SCHED_LOCK_(&lockStat, p): raise the ceiling, return the previous one
SchedLockCeil(pp) == IF lockCeil < pp THEN pp ELSE lockCeil

\* the contexts that have started and not finished
Active == {d \in Ctx : pc[d] # "idle"}

\* c is the context the processor executes
Runs(c) == /\ fatal = 0
           /\ pc[c] # "idle"
           /\ \A d \in Ctx : pc[d] = "idle" \/ d <= c

\* c can preempt what the processor executes: c has the higher priority and,
\* unless c is the interrupt, is above the scheduler's lock ceiling.  The
\* steps between two calls touch nothing shared, so that a preemption there
\* is the same as one at the first statement of the next call.
MayPreempt(c) == /\ pc[c] = "idle"
                 /\ fatal = 0
                 /\ Cardinality(Active) < MaxNest
                 /\ (c = ISR \/ c > lockCeil)
                 /\ \A d \in Ctx : \/ pc[d] = "idle"
                                   \/ /\ d < c
                                      /\ pc[d] \notin {"rtc", "ret"}
                                      /\ own[d] = NoEvt

PubPcs == {"pub_inc", "pub_byte", "pub_lock", "pub_post", "pub_unlock", "pub_gc"}

\* the priorities whose bit is set in the subscriber list of signal s
Subscribers(s) ==
    {pp \in 1..(8 * NBytes) :
        BitOf(QF_subscrList_[s][(pp - 1) \div 8], (pp - 1) % 8) = 1}

(* ------------------------------------------------------------------------ *)
(* Initial state: after QF_psInit(subscrSto, MaxSignal)                     *)
(* ------------------------------------------------------------------------ *)
Init ==
    /\ QF_subscrList_ = [s \in Sigs |-> [b \in 0..(NBytes - 1) |-> 0]]
    /\ QF_maxSignal_ = MaxSignal
    /\ refCtr_ = [ev \in Evt |-> 0]
    /\ inPool = [ev \in Evt |-> poolId_[ev] # 0]
    /\ queue = [pp \in Registered |-> <<>>]
    /\ lockCeil = 0
    /\ fatal = 0
    /\ pc = [c \in Ctx |-> "idle"]
    /\ cur = [c \in Ctx |-> NoEvt]
    /\ own = [c \in Ctx |-> NoEvt]
    /\ me = [c \in Ctx |-> NULL]
    /\ sig = [c \in Ctx |-> 0]
    /\ e = [c \in Ctx |-> NoEvt]
    /\ p = [c \in Ctx |-> 0]
    /\ i = [c \in Ctx |-> 0]
    /\ tmp = [c \in Ctx |-> 0]
    /\ lockStat = [c \in Ctx |-> 0]
    /\ calls = 0
    /\ done = [c \in Ctx |-> "none"]
    /\ posted = [c \in Ctx |-> <<>>]
    /\ nInc = [c \in Ctx |-> 0]
    /\ nGc = [c \in Ctx |-> 0]
    /\ mutated = [c \in Ctx |-> FALSE]
    /\ wasSet = [c \in Ctx |-> FALSE]
    /\ refOnEntry = [c \in Ctx |-> 0]
    /\ pubId = [c \in Ctx |-> 0]
    /\ qseq = [pp \in Registered |-> <<>>]
    /\ stableSet = [c \in Ctx |-> {}]
    /\ stableClr = [c \in Ctx |-> {}]
    /\ nLock = [c \in Ctx |-> 0]
    /\ nUnlock = [c \in Ctx |-> 0]
    /\ lockReq = [c \in Ctx |-> 0]
    /\ ceilOnEntry = [c \in Ctx |-> 0]
    /\ want = [s \in Sigs |-> {}]

\* the frame of a call and the record of what it did end with the step
ClearFrame(c) ==
    /\ me' = [me EXCEPT ![c] = NULL]
    /\ sig' = [sig EXCEPT ![c] = 0]
    /\ e' = [e EXCEPT ![c] = NoEvt]
    /\ p' = [p EXCEPT ![c] = 0]
    /\ i' = [i EXCEPT ![c] = 0]
    /\ tmp' = [tmp EXCEPT ![c] = 0]
    /\ lockStat' = [lockStat EXCEPT ![c] = 0]
    /\ done' = [done EXCEPT ![c] = "none"]
    /\ refOnEntry' = [refOnEntry EXCEPT ![c] = 0]
    /\ posted' = [posted EXCEPT ![c] = <<>>]
    /\ nInc' = [nInc EXCEPT ![c] = 0]
    /\ nGc' = [nGc EXCEPT ![c] = 0]
    /\ mutated' = [mutated EXCEPT ![c] = FALSE]
    /\ wasSet' = [wasSet EXCEPT ![c] = FALSE]
    /\ pubId' = [pubId EXCEPT ![c] = 0]
    /\ stableSet' = [stableSet EXCEPT ![c] = {}]
    /\ stableClr' = [stableClr EXCEPT ![c] = {}]
    /\ nLock' = [nLock EXCEPT ![c] = 0]
    /\ nUnlock' = [nUnlock EXCEPT ![c] = 0]
    /\ lockReq' = [lockReq EXCEPT ![c] = 0]
    /\ ceilOnEntry' = [ceilOnEntry EXCEPT ![c] = 0]

\* a change of the subscriber lists is seen by every publish in progress
Touch(c, list) ==
    mutated' = [d \in Ctx |->
                  IF list # QF_subscrList_ /\ d # c /\ pc[d] \in PubPcs
                  THEN TRUE ELSE mutated[d]]

\* the priorities whose bit is set in the subscriber list of signal s of list
SubscribersIn(list, s) ==
    {pp \in 1..(8 * NBytes) :
        BitOf(list[s][(pp - 1) \div 8], (pp - 1) % 8) = 1}

\* a bit that changes during a publish is no longer one that was set, or
\* clear, for the whole of the publish
Watch(c, list) ==
    /\ stableSet' = [d \in Ctx |->
                       IF d # c /\ pc[d] \in PubPcs
                       THEN stableSet[d] \cap SubscribersIn(list, sigOf[e[d]])
                       ELSE stableSet[d]]
    /\ stableClr' = [d \in Ctx |->
                       IF d # c /\ pc[d] \in PubPcs
                       THEN stableClr[d] \ SubscribersIn(list, sigOf[e[d]])
                       ELSE stableClr[d]]

(* ------------------------------------------------------------------------ *)
(* Scheduling of the callers                                                *)
(* ------------------------------------------------------------------------ *)
\* the interrupt fires, or an active object starts a run-to-completion step
\* for an event that was not published (a time event, a direct post)
RTC_begin(c) ==
    /\ MayPreempt(c)
    /\ calls < MaxCalls
    /\ pc' = [pc EXCEPT ![c] = "rtc"]
    /\ UNCHANGED <<shared, sched, frame, ghost, hist>>

\* QActive_get_(): the active object takes the event at the head of its queue
QActive_get_(c) ==
    /\ c \in Registered
    /\ MayPreempt(c)
    /\ queue[c] # <<>>
    /\ cur' = [cur EXCEPT ![c] = Head(queue[c])]
    /\ queue' = [queue EXCEPT ![c] = Tail(@)]
    /\ qseq' = [qseq EXCEPT ![c] = Tail(@)]
    /\ pc' = [pc EXCEPT ![c] = "rtc"]
    /\ UNCHANGED <<QF_subscrList_, QF_maxSignal_, refCtr_, inPool, lockCeil,
                   fatal, own, calls, frame, ghost>>
    /\ UNCHANGED <<pubId, stableSet, stableClr, nLock, nUnlock, lockReq,
                   ceilOnEntry, want>>

\* end of the step: the framework garbage-collects the handled event
RTC_end(c) ==
    /\ \/ pc[c] = "ret"
       \/ pc[c] = "rtc" /\ cur[c] # NoEvt /\ own[c] = NoEvt
    /\ Runs(c)
    /\ IF cur[c] # NoEvt
       THEN /\ refCtr_' = GcRefCtr(cur[c])
            /\ inPool' = GcInPool(cur[c])
       ELSE UNCHANGED <<refCtr_, inPool>>
    /\ cur' = [cur EXCEPT ![c] = NoEvt]
    /\ pc' = [pc EXCEPT ![c] = "idle"]
    /\ ClearFrame(c)
    /\ UNCHANGED <<QF_subscrList_, QF_maxSignal_, queue, lockCeil, fatal,
                   own, calls, qseq, want>>

\* Q_NEW(): the caller allocates a dynamic event it is about to publish
QF_new(c, ev) ==
    /\ pc[c] = "rtc"
    /\ Runs(c)
    /\ calls < MaxCalls
    /\ own[c] = NoEvt
    /\ poolId_[ev] # 0
    /\ inPool[ev]
    /\ inPool' = [inPool EXCEPT ![ev] = FALSE]
    /\ refCtr_' = [refCtr_ EXCEPT ![ev] = 0]
    /\ own' = [own EXCEPT ![c] = ev]
    /\ UNCHANGED <<QF_subscrList_, QF_maxSignal_, queue, lockCeil, fatal,
                   pc, cur, calls, frame, ghost, hist>>

\* the events the caller can pass to QF_PUBLISH()
Publishable(c) ==
    IF own[c] # NoEvt THEN {own[c]}
    ELSE {ev \in Evt : poolId_[ev] = 0} \cup ({cur[c]} \ {NoEvt})

\* the arguments a caller passes to the subscription services: its own
\* handle with a signal, or, by mistake, a handle that is not registered
BadHandles == {a \in AO : prio[a] > QF_MAX_ACTIVE \/ QF_active_[prio[a]] # a}
SubArgs(c) == IF c = ISR THEN {}
              ELSE ({QF_active_[c]} \X (SubSigs \cup BadSigs))
                   \cup (BadHandles \X {Q_USER_SIG})
Handles(c) == IF c = ISR THEN {} ELSE {QF_active_[c]} \cup BadHandles

\* a call begins
Enter(c) ==
    /\ pc[c] = "rtc"
    /\ calls < MaxCalls
    /\ Runs(c)
    /\ calls' = calls + 1

\* a failed assertion stops the system: Q_onAssert() does not return
Halt(c, id) ==
    /\ pc' = [pc EXCEPT ![c] = "fatal"]
    /\ fatal' = id

(* ------------------------------------------------------------------------ *)
(* QF_publish_                                                              *)
(* ------------------------------------------------------------------------ *)
\* the call and its precondition
QF_publish_(c, ev) ==
    /\ Enter(c)
    /\ own' = [own EXCEPT ![c] = NoEvt]
    /\ e' = [e EXCEPT ![c] = ev]
    /\ refOnEntry' = [refOnEntry EXCEPT ![c] = refCtr_[ev]]
    /\ pubId' = [pubId EXCEPT ![c] = calls + 1]
    /\ ceilOnEntry' = [ceilOnEntry EXCEPT ![c] = lockCeil]
    /\ IF sigOf[ev] \in Sigs
       THEN /\ stableSet' = [stableSet EXCEPT ![c] = Subscribers(sigOf[ev])]
            /\ stableClr' = [stableClr EXCEPT ![c] =
                                (1..(8 * NBytes)) \ Subscribers(sigOf[ev])]
       ELSE UNCHANGED <<stableSet, stableClr>>
    /\ UNCHANGED <<qseq, nLock, nUnlock, lockReq, want>>
    /\ IF PublishPre(ev)
       THEN /\ pc' = [pc EXCEPT ![c] = "pub_inc"]
            /\ fatal' = fatal
       ELSE Halt(c, 200)
    /\ UNCHANGED <<QF_subscrList_, QF_maxSignal_, refCtr_, inPool, queue,
                   lockCeil, cur, me, sig, p, i, tmp, lockStat,
                   done, posted, nInc, nGc, mutated, wasSet>>

\* the first critical section, and the initialisation of the locals
QF_publish_inc(c) ==
    /\ pc[c] = "pub_inc"
    /\ Runs(c)
    /\ refCtr_' = [refCtr_ EXCEPT ![e[c]] = PublishRefCtr(e[c], @)]
    /\ nInc' = [nInc EXCEPT ![c] = IF refCtr_'[e[c]] # refCtr_[e[c]] THEN @ + 1 ELSE @]
    /\ lockStat' = [lockStat EXCEPT ![c] = LOCK_UNINIT]
    /\ i' = [i EXCEPT ![c] = PublishFirstByte]
    /\ pc' = [pc EXCEPT ![c] = "pub_byte"]
    /\ UNCHANGED <<QF_subscrList_, QF_maxSignal_, inPool, queue, lockCeil,
                   fatal, sched, me, sig, e, p, tmp,
                   done, posted, nGc, mutated, wasSet, refOnEntry, hist>>

\* The control flow of the two loops, which touches only locals, up to the
\* next statement that touches shared state.  t is the rest of the current
\* byte, idx its index, ls the value of lockStat.lockPrio:
\*   while (tmp != 0) { p = QF_LOG2(tmp); tmp &= QF_invPwr2Lkup[p];
\*                      p += (i << 3); if (lockStat.lockPrio == 0xFF) ...
\*   } while (i != 0);  if (lockStat.lockPrio <= QF_MAX_ACTIVE) ...
PublishFlow(c, t, idx, ls) ==
    IF t # 0
    THEN /\ tmp' = [tmp EXCEPT ![c] = PublishRemoveBit(t, QF_LOG2(t))]
         /\ p' = [p EXCEPT ![c] = PublishPrio(QF_LOG2(t), idx)]
         /\ pc' = [pc EXCEPT ![c] = IF PublishNotLocked(ls) THEN "pub_lock" ELSE "pub_post"]
    ELSE /\ tmp' = [tmp EXCEPT ![c] = 0]
         /\ p' = p
         /\ pc' = [pc EXCEPT ![c] = IF idx # 0 THEN "pub_byte"
                                    ELSE IF PublishWasLocked(ls) THEN "pub_unlock"
                                    ELSE "pub_gc"]

\* do { --i; tmp = QF_PTR_AT_(QF_subscrList_, e->sig).bits[i];
QF_publish_byte(c) ==
    /\ pc[c] = "pub_byte"
    /\ Runs(c)
    /\ i' = [i EXCEPT ![c] = @ - 1]
    /\ PublishFlow(c, QF_subscrList_[sigOf[e[c]]][i[c] - 1], i[c] - 1, lockStat[c])
    /\ UNCHANGED <<shared, sched, me, sig, e, lockStat, ghost, hist>>

\* QF_SCHED_LOCK_(&lockStat, p);
QF_publish_lock(c) ==
    /\ pc[c] = "pub_lock"
    /\ Runs(c)
    /\ lockStat' = [lockStat EXCEPT ![c] = lockCeil]
    /\ lockCeil' = SchedLockCeil(p[c])
    /\ nLock' = [nLock EXCEPT ![c] = @ + 1]
    /\ lockReq' = [lockReq EXCEPT ![c] = p[c]]
    /\ pc' = [pc EXCEPT ![c] = "pub_post"]
    /\ UNCHANGED <<QF_subscrList_, QF_maxSignal_, refCtr_, inPool, queue,
                   fatal, sched, me, sig, e, p, i, tmp, ghost>>
    /\ UNCHANGED <<pubId, qseq, stableSet, stableClr, nUnlock, ceilOnEntry,
                   want>>

\* Q_ASSERT_ID(220, QF_active_[p] != 0); QACTIVE_POST(QF_active_[p], e, sender);
QF_publish_post(c) ==
    /\ pc[c] = "pub_post"
    /\ Runs(c)
    /\ IF QF_active_[p[c]] = NULL
       THEN /\ Halt(c, 220)
            /\ UNCHANGED <<queue, refCtr_, posted, tmp, p, qseq>>
       ELSE IF Len(queue[p[c]]) >= QueueCap
       THEN /\ Halt(c, 110)    \* the queue's own overflow assertion
            /\ UNCHANGED <<queue, refCtr_, posted, tmp, p, qseq>>
       ELSE /\ queue' = [queue EXCEPT ![p[c]] = Append(@, e[c])]
            /\ qseq' = [qseq EXCEPT ![p[c]] = Append(@, pubId[c])]
            /\ refCtr_' = PostRefCtr(e[c])
            /\ posted' = [posted EXCEPT ![c] = Append(@, p[c])]
            /\ PublishFlow(c, tmp[c], i[c], lockStat[c])
            /\ fatal' = fatal
    /\ UNCHANGED <<QF_subscrList_, QF_maxSignal_, inPool, lockCeil, sched,
                   me, sig, e, i, lockStat,
                   done, nInc, nGc, mutated, wasSet, refOnEntry>>
    /\ UNCHANGED <<pubId, stableSet, stableClr, nLock, nUnlock, lockReq,
                   ceilOnEntry, want>>

\* QF_SCHED_UNLOCK_(&lockStat): the ceiling returns to the saved one
QF_publish_unlock(c) ==
    /\ pc[c] = "pub_unlock"
    /\ Runs(c)
    /\ lockCeil' = lockStat[c]
    /\ nUnlock' = [nUnlock EXCEPT ![c] = @ + 1]
    /\ pc' = [pc EXCEPT ![c] = "pub_gc"]
    /\ UNCHANGED <<QF_subscrList_, QF_maxSignal_, refCtr_, inPool, queue,
                   fatal, sched, frame, ghost>>
    /\ UNCHANGED <<pubId, qseq, stableSet, stableClr, nLock, lockReq,
                   ceilOnEntry, want>>

\* QF_gc(e); and the return
QF_publish_gc(c) ==
    /\ pc[c] = "pub_gc"
    /\ Runs(c)
    /\ refCtr_' = PublishGc(e[c])[1]
    /\ inPool' = PublishGc(e[c])[2]
    /\ nGc' = [nGc EXCEPT ![c] = @ + 1]
    /\ done' = [done EXCEPT ![c] = "publish"]
    /\ pc' = [pc EXCEPT ![c] = "ret"]
    /\ UNCHANGED <<QF_subscrList_, QF_maxSignal_, queue, lockCeil, fatal,
                   sched, frame, posted, nInc, mutated, wasSet, refOnEntry,
                   hist>>

(* ------------------------------------------------------------------------ *)
(* QActive_subscribe                                                        *)
(* ------------------------------------------------------------------------ *)
\* the call: p = me->prio; i = QF_div8Lkup[p]; and the precondition
QActive_subscribe(c, m, s) ==
    /\ Enter(c)
    /\ own[c] = NoEvt
    /\ me' = [me EXCEPT ![c] = m]
    /\ sig' = [sig EXCEPT ![c] = s]
    /\ p' = [p EXCEPT ![c] = prio[m]]
    /\ \E idx \in QF_div8Lkup(prio[m]) :
          IF SubscribePre(m, s)
          THEN /\ i' = [i EXCEPT ![c] = idx]
               /\ pc' = [pc EXCEPT ![c] = "sub_crit"]
               /\ fatal' = fatal
          ELSE /\ Halt(c, 300)
               /\ i' = i
    /\ UNCHANGED <<QF_subscrList_, QF_maxSignal_, refCtr_, inPool, queue,
                   lockCeil, cur, own, e, tmp, lockStat, ghost, hist>>

\* the critical section: set the priority bit
QActive_subscribe_crit(c) ==
    /\ pc[c] = "sub_crit"
    /\ Runs(c)
    /\ QF_subscrList_' = [QF_subscrList_ EXCEPT ![sig[c]][i[c]] = SubscribeBits(@, p[c])]
    /\ wasSet' = [wasSet EXCEPT ![c] = p[c] \in Subscribers(sig[c])]
    /\ done' = [done EXCEPT ![c] = "subscribe"]
    /\ Touch(c, QF_subscrList_')
    /\ Watch(c, QF_subscrList_')
    /\ want' = [want EXCEPT ![sig[c]] = @ \cup {p[c]}]
    /\ pc' = [pc EXCEPT ![c] = "ret"]
    /\ UNCHANGED <<QF_maxSignal_, refCtr_, inPool, queue, lockCeil, fatal,
                   sched, frame, posted, nInc, nGc, refOnEntry>>
    /\ UNCHANGED <<pubId, qseq, nLock, nUnlock, lockReq, ceilOnEntry>>

(* ------------------------------------------------------------------------ *)
(* QActive_unsubscribe                                                      *)
(* ------------------------------------------------------------------------ *)
QActive_unsubscribe(c, m, s) ==
    /\ Enter(c)
    /\ own[c] = NoEvt
    /\ me' = [me EXCEPT ![c] = m]
    /\ sig' = [sig EXCEPT ![c] = s]
    /\ p' = [p EXCEPT ![c] = prio[m]]
    /\ \E idx \in QF_div8Lkup(prio[m]) :
          IF UnsubscribePre(m, s)
          THEN /\ i' = [i EXCEPT ![c] = idx]
               /\ pc' = [pc EXCEPT ![c] = "unsub_crit"]
               /\ fatal' = fatal
          ELSE /\ Halt(c, 400)
               /\ i' = i
    /\ UNCHANGED <<QF_subscrList_, QF_maxSignal_, refCtr_, inPool, queue,
                   lockCeil, cur, own, e, tmp, lockStat, ghost, hist>>

\* the critical section: clear the priority bit
QActive_unsubscribe_crit(c) ==
    /\ pc[c] = "unsub_crit"
    /\ Runs(c)
    /\ QF_subscrList_' = [QF_subscrList_ EXCEPT ![sig[c]][i[c]] = UnsubscribeBits(@, p[c])]
    /\ wasSet' = [wasSet EXCEPT ![c] = p[c] \in Subscribers(sig[c])]
    /\ done' = [done EXCEPT ![c] = "unsubscribe"]
    /\ Touch(c, QF_subscrList_')
    /\ Watch(c, QF_subscrList_')
    /\ want' = [want EXCEPT ![sig[c]] = @ \ {p[c]}]
    /\ pc' = [pc EXCEPT ![c] = "ret"]
    /\ UNCHANGED <<QF_maxSignal_, refCtr_, inPool, queue, lockCeil, fatal,
                   sched, frame, posted, nInc, nGc, refOnEntry>>
    /\ UNCHANGED <<pubId, qseq, nLock, nUnlock, lockReq, ceilOnEntry>>

(* ------------------------------------------------------------------------ *)
(* QActive_unsubscribeAll                                                   *)
(* ------------------------------------------------------------------------ *)
\* the call, its precondition, i = QF_div8Lkup[p] and sig = Q_USER_SIG
QActive_unsubscribeAll(c, m) ==
    /\ Enter(c)
    /\ own[c] = NoEvt
    /\ me' = [me EXCEPT ![c] = m]
    /\ p' = [p EXCEPT ![c] = prio[m]]
    /\ IF UnsubscribeAllPre(m)
       THEN /\ pc' = [pc EXCEPT ![c] = "uall_loop"]
            /\ \E idx \in QF_div8Lkup(prio[m]) : i' = [i EXCEPT ![c] = idx]
            /\ sig' = [sig EXCEPT ![c] = Q_USER_SIG]
            /\ fatal' = fatal
       ELSE /\ Halt(c, 500)
            /\ UNCHANGED <<i, sig>>
    /\ UNCHANGED <<QF_subscrList_, QF_maxSignal_, refCtr_, inPool, queue,
                   lockCeil, cur, own, e, tmp, lockStat, ghost, hist>>

\* one turn of the loop: the critical section for signal sig, then ++sig;
\* with sig at QF_maxSignal_, the return
QActive_unsubscribeAll_loop(c) ==
    /\ pc[c] = "uall_loop"
    /\ Runs(c)
    /\ IF sig[c] < QF_maxSignal_
       THEN /\ QF_subscrList_' =
                  IF UnsubscribeAllTest(QF_subscrList_[sig[c]][i[c]], p[c])
                  THEN [QF_subscrList_ EXCEPT ![sig[c]][i[c]] = UnsubscribeAllBits(@, p[c])]
                  ELSE QF_subscrList_
            /\ wasSet' = [wasSet EXCEPT ![c] = @ \/ p[c] \in Subscribers(sig[c])]
            /\ sig' = [sig EXCEPT ![c] = UnsubscribeAllNext(@)]
            /\ Touch(c, QF_subscrList_')
            /\ Watch(c, QF_subscrList_')
            /\ want' = [want EXCEPT ![sig[c]] = @ \ {p[c]}]
            /\ UNCHANGED <<pc, done>>
       ELSE /\ done' = [done EXCEPT ![c] = "unsubscribeAll"]
            /\ pc' = [pc EXCEPT ![c] = "ret"]
            /\ UNCHANGED <<QF_subscrList_, wasSet, sig, mutated>>
            /\ UNCHANGED <<stableSet, stableClr, want>>
    /\ UNCHANGED <<QF_maxSignal_, refCtr_, inPool, queue, lockCeil, fatal,
                   sched, me, e, p, i, tmp, lockStat, posted, nInc, nGc,
                   refOnEntry>>
    /\ UNCHANGED <<pubId, qseq, nLock, nUnlock, lockReq, ceilOnEntry>>

(* ------------------------------------------------------------------------ *)
(* The system                                                               *)
(* ------------------------------------------------------------------------ *)
Next ==
    \/ \E c \in Ctx : RTC_begin(c)
    \/ \E c \in Ctx : QActive_get_(c)
    \/ \E c \in Ctx : RTC_end(c)
    \/ \E c \in Ctx, ev \in Evt : QF_new(c, ev)
    \/ \E c \in Ctx : \E ev \in Publishable(c) : QF_publish_(c, ev)
    \/ \E c \in Ctx : QF_publish_inc(c)
    \/ \E c \in Ctx : QF_publish_byte(c)
    \/ \E c \in Ctx : QF_publish_lock(c)
    \/ \E c \in Ctx : QF_publish_post(c)
    \/ \E c \in Ctx : QF_publish_unlock(c)
    \/ \E c \in Ctx : QF_publish_gc(c)
    \/ \E c \in Ctx : \E a \in SubArgs(c) : QActive_subscribe(c, a[1], a[2])
    \/ \E c \in Ctx : QActive_subscribe_crit(c)
    \/ \E c \in Ctx : \E a \in SubArgs(c) : QActive_unsubscribe(c, a[1], a[2])
    \/ \E c \in Ctx : QActive_unsubscribe_crit(c)
    \/ \E c \in Ctx : \E m \in Handles(c) : QActive_unsubscribeAll(c, m)
    \/ \E c \in Ctx : QActive_unsubscribeAll_loop(c)

Spec == Init /\ [][Next]_vars

(* ------------------------------------------------------------------------ *)
(* Properties                                                               *)
(* ------------------------------------------------------------------------ *)
\* the call of QF_publish_ in context c has returned
Published(c) == pc[c] = "ret" /\ done[c] = "publish"

\* the priorities posted to by the publish of context c, as a set
PostedSet(c) == {posted[c][k] : k \in 1..Len(posted[c])}

\* context c takes the step from pc value a to pc value b
Step(c, a, b) == pc[c] = a /\ pc'[c] = b

\* C1: a publish during which the subscriber lists did not change has, when
\* it returns, posted the event exactly once to every priority whose bit is
\* set in the subscriber list of the event's signal, and to no other.
C1_PublishReachesSubscribers ==
    \A c \in Ctx :
        (Published(c) /\ ~mutated[c]) =>
            /\ PostedSet(c) = Subscribers(sigOf[e[c]])
            /\ Len(posted[c]) = Cardinality(Subscribers(sigOf[e[c]]))
            /\ \A pp \in PostedSet(c) : QF_active_[pp] # NULL

\* a publish has returned after posting to subscribers kept in both bytes
C1_Witness ==
    \E c \in Ctx :
        /\ Published(c)
        /\ ~mutated[c]
        /\ \E lo \in PostedSet(c), hi \in PostedSet(c) : lo <= 8 /\ hi > 8

\* C2: within one publish the posts are made in strictly descending priority
\* order, whatever bytes the subscribers' bits are kept in.
C2_DescendingPriorityOrder ==
    \A c \in Ctx :
        \A j \in 1..Len(posted[c]), k \in 1..Len(posted[c]) :
            j < k => posted[c][j] > posted[c][k]

\* a publish has posted to three subscribers, two of them sharing a byte
C2_Witness ==
    \E c \in Ctx : Published(c) /\ Len(posted[c]) = 3

\* C3: from the increment at the start of a publish of a dynamic event until
\* the publish's own QF_gc(), the event's reference counter is at least 1 and
\* the event's block is not in the pool.
C3_NotReclaimedDuringPublish ==
    \A c \in Ctx :
        (pc[c] \in (PubPcs \ {"pub_inc"}) /\ poolId_[e[c]] # 0) =>
            /\ refCtr_[e[c]] >= 1
            /\ ~inPool[e[c]]

\* a subscriber has taken the event from its queue and released it while the
\* publish that posted it has not yet run its own QF_gc()
C3_Witness ==
    \E c \in Ctx :
        /\ pc[c] \in PubPcs
        /\ poolId_[e[c]] # 0
        /\ \E pp \in PostedSet(c) :
              /\ cur[pp] # e[c]
              /\ \A k \in 1..Len(queue[pp]) : queue[pp][k] # e[c]

\* C4 as claimed: a publish of a dynamic event whose reference counter is 1 on
\* entry and whose signal has no subscriber posts nothing and leaves the event
\* reclaimed, its counter 0 and its block in the pool.
C4_ReclaimedWithRefOne ==
    \A c \in Ctx :
        (/\ Published(c)
         /\ ~mutated[c]
         /\ poolId_[e[c]] # 0
         /\ refOnEntry[c] = 1
         /\ Subscribers(sigOf[e[c]]) = {}) =>
            /\ posted[c] = <<>>
            /\ refCtr_[e[c]] = 0
            /\ inPool[e[c]]

\* C4, amended: a publish of a dynamic event whose reference counter is 0 on
\* entry (no other holder) and whose signal has no subscriber posts nothing
\* and leaves the event reclaimed, its counter 0 and its block in the pool.
C4_ReclaimedWithRefZero ==
    \A c \in Ctx :
        (/\ Published(c)
         /\ ~mutated[c]
         /\ poolId_[e[c]] # 0
         /\ refOnEntry[c] = 0
         /\ Subscribers(sigOf[e[c]]) = {}) =>
            /\ posted[c] = <<>>
            /\ refCtr_[e[c]] = 0
            /\ inPool[e[c]]

\* a publish of a fresh dynamic event without subscribers has returned
C4_Witness ==
    \E c \in Ctx :
        /\ Published(c)
        /\ ~mutated[c]
        /\ poolId_[e[c]] # 0
        /\ refOnEntry[c] = 0
        /\ Subscribers(sigOf[e[c]]) = {}
        /\ inPool[e[c]]

\* C5: a publish of a dynamic event increments the reference counter exactly
\* once, before any post, and calls QF_gc() exactly once, after the last
\* post, whatever the number of subscribers; the counter of a static event
\* is never changed.
C5_OneIncrementOneReclaim ==
    /\ \A c \in Ctx :
          /\ pc[c] = "pub_inc" => (nInc[c] = 0 /\ posted[c] = <<>>)
          /\ (pc[c] \in (PubPcs \ {"pub_inc"}) \/ Published(c)) =>
                nInc[c] = (IF poolId_[e[c]] # 0 THEN 1 ELSE 0)
          /\ pc[c] \in PubPcs => nGc[c] = 0
          /\ Published(c) => nGc[c] = 1
    /\ \A ev \in Evt : poolId_[ev] = 0 => refCtr_[ev] = 0

\* a publish of a dynamic event has returned after two posts
C5_Witness ==
    \E c \in Ctx :
        /\ Published(c)
        /\ poolId_[e[c]] # 0
        /\ Len(posted[c]) = 2

\* C6: an unsubscribe called while the caller's bit is clear stops at a
\* failed assertion; it does not return.
C6_UnsubscribeClearBitIsFatal ==
    \A c \in Ctx :
        ~(pc[c] = "ret" /\ done[c] = "unsubscribe" /\ ~wasSet[c])

\* the arguments violate the precondition of subscribe and unsubscribe
BadSubArgs(m, s) ==
    \/ s < Q_USER_SIG
    \/ s >= QF_maxSignal_
    \/ prio[m] = 0
    \/ prio[m] > QF_MAX_ACTIVE
    \/ QF_active_[prio[m]] # m

\* the step is the call of QF_publish_ in context c
PublishCall(c) ==
    /\ pc[c] = "rtc"
    /\ pc'[c] # "rtc"
    /\ e'[c] # NoEvt

\* the step is the call of subscribe or unsubscribe in context c
SubCall(c) ==
    /\ pc[c] = "rtc"
    /\ me'[c] # NULL
    /\ pc'[c] \in {"sub_crit", "unsub_crit"} \/ fatal' \in {300, 400}

\* C7: a publish of an event whose signal is QF_maxSignal_ or above stops at
\* assertion 200 and has no other effect: the subscriber lists, the reference
\* counters, the pool, the queues and the scheduler lock stay as they are;
\* nothing runs after the stop.
C7_PublishOutOfRangeIsFatal ==
    [][/\ fatal = 0
       /\ \A c \in Ctx :
             (PublishCall(c) /\ sigOf[e'[c]] >= QF_maxSignal_) =>
                 /\ fatal' = 200
                 /\ pc'[c] = "fatal"
                 /\ UNCHANGED <<QF_subscrList_, refCtr_, inPool, queue, lockCeil>>
                 /\ UNCHANGED <<posted, nInc, nGc>>]_vars

\* a publish of an out-of-range signal has stopped the system
C7_Witness ==
    \E c \in Ctx :
        /\ pc[c] = "fatal"
        /\ fatal = 200
        /\ sigOf[e[c]] = QF_maxSignal_

\* C8: subscribe and unsubscribe stop at their assertion, with the subscriber
\* lists unchanged, when the signal is below Q_USER_SIG or not below
\* QF_maxSignal_, when the priority is 0 or above QF_MAX_ACTIVE, or when the
\* directory entry of the priority is not the caller's handle.
C8_SubscribePreconditionIsFatal ==
    [][/\ fatal = 0
       /\ \A c \in Ctx :
             (SubCall(c) /\ BadSubArgs(me'[c], sig'[c])) =>
                 /\ fatal' \in {300, 400}
                 /\ pc'[c] = "fatal"
                 /\ UNCHANGED QF_subscrList_]_vars

\* a call with a handle that the directory does not hold has stopped the system
C8_Witness ==
    \E c \in Ctx :
        /\ pc[c] = "fatal"
        /\ fatal \in {300, 400}
        /\ prio[me[c]] \in 1..QF_MAX_ACTIVE
        /\ QF_active_[prio[me[c]]] \notin {NULL, me[c]}

\* C9: a subscribe of a registered active object to a signal in range never
\* fails, and a subscribe made while the bit is already set leaves all
\* subscriber lists as they are.
C9_SubscribeIdempotent ==
    [][\A c \in Ctx :
          /\ (SubCall(c) /\ ~BadSubArgs(me'[c], sig'[c])) => fatal' = 0
          /\ (Step(c, "sub_crit", "ret") /\ p[c] \in Subscribers(sig[c])) =>
                (QF_subscrList_' = QF_subscrList_ /\ fatal' = 0)]_vars

\* a second subscribe to the same signal has returned
C9_Witness ==
    \E c \in Ctx : pc[c] = "ret" /\ done[c] = "subscribe" /\ wasSet[c]

\* every bit but the one of priority pp and signal s keeps its value
OtherBitsKept(pp, s) ==
    \A s2 \in Sigs, p2 \in 1..(8 * NBytes) :
        (s2 # s \/ p2 # pp) =>
            ((p2 \in Subscribers(s2)') <=> (p2 \in Subscribers(s2)))

\* C10: subscribe sets, and unsubscribe clears, the bit of the caller's
\* priority in the list of the signal, so that an unsubscribe after a
\* subscribe leaves the bit clear; neither changes any other bit, be it of
\* another priority in the same byte or of the same priority in another list.
C10_SubscribeUnsubscribeInverse ==
    [][\A c \in Ctx :
          /\ Step(c, "sub_crit", "ret") =>
                (p[c] \in Subscribers(sig[c])' /\ OtherBitsKept(p[c], sig[c]))
          /\ Step(c, "unsub_crit", "ret") =>
                (p[c] \notin Subscribers(sig[c])' /\ OtherBitsKept(p[c], sig[c]))]_vars

\* an unsubscribe has cleared a bit that a subscribe had set, while the
\* same byte holds the bit of another priority
C10_Witness ==
    \E c \in Ctx :
        /\ pc[c] = "ret"
        /\ done[c] = "unsubscribe"
        /\ wasSet[c]
        /\ p[c] \notin Subscribers(sig[c])
        /\ \E p2 \in Subscribers(sig[c]) : (p2 - 1) \div 8 = i[c]

\* the step is one turn of the loop of QActive_unsubscribeAll in context c
UnsubscribeAllTurn(c) == pc[c] = "uall_loop" /\ sig'[c] # sig[c]

\* C11: when QActive_unsubscribeAll returns, the caller's bit is clear in the
\* list of every signal from Q_USER_SIG up to QF_maxSignal_, however many of
\* them it was set in; no turn of the loop changes the bit of another
\* priority.
C11_UnsubscribeAllClearsAll ==
    [][\A c \in Ctx :
          /\ UnsubscribeAllTurn(c) => OtherBitsKept(p[c], sig[c])
          /\ Step(c, "uall_loop", "ret") =>
                \A s \in Q_USER_SIG..(QF_maxSignal_ - 1) :
                    p[c] \notin Subscribers(s)']_vars

\* QActive_unsubscribeAll has returned after clearing a bit, and a list
\* still holds the bit of another priority in the caller's byte
C11_Witness ==
    \E c \in Ctx :
        /\ pc[c] = "ret"
        /\ done[c] = "unsubscribeAll"
        /\ wasSet[c]
        /\ \E s \in Sigs : \E p2 \in Subscribers(s) :
              p2 # p[c] /\ (p2 - 1) \div 8 = i[c]

\* the number of posts the publish of context c made to priority pp
PostsTo(c, pp) == Cardinality({k \in 1..Len(posted[c]) : posted[c][k] = pp})

\* C12: a publish that returns has posted exactly once to every priority
\* whose bit was set when the publish began and was not changed until it
\* ended, and has not posted to a priority whose bit was clear when it began
\* and was not changed until it ended, whatever other bits changed meanwhile.
C12_StableSubscriptionsHonoured ==
    \A c \in Ctx :
        Published(c) =>
            /\ \A pp \in stableSet[c] : PostsTo(c, pp) = 1
            /\ \A pp \in stableClr[c] : PostsTo(c, pp) = 0

\* a publish has returned that was preempted by a subscribe to its signal:
\* it posted to its standing subscriber and to the new one
C12_Witness ==
    \E c \in Ctx :
        /\ Published(c)
        /\ mutated[c]
        /\ stableSet[c] # {}
        /\ PostedSet(c) # stableSet[c]

\* C13: two publish calls that both post to the queues of x and y leave
\* their events in the same relative order in both queues.
C13_NoReorderAcrossQueues ==
    \A x \in Registered, y \in Registered :
        \A j \in 1..Len(qseq[x]), k \in 1..Len(qseq[x]) :
            \A j2 \in 1..Len(qseq[y]), k2 \in 1..Len(qseq[y]) :
                (j < k /\ qseq[x][j] = qseq[y][j2] /\ qseq[x][k] = qseq[y][k2])
                    => j2 < k2

\* the references to event ev held by the queues, by the active objects that
\* handle it and by the publish calls that have counted their own
Holders(ev) ==
    Cardinality({x \in Registered \X (1..QueueCap) :
                    x[2] <= Len(queue[x[1]]) /\ queue[x[1]][x[2]] = ev})
    + Cardinality({c \in Ctx : cur[c] = ev})
    + Cardinality({c \in Ctx : pc[c] \in (PubPcs \ {"pub_inc"}) /\ e[c] = ev})

\* context c publishes, or has published, a dynamic event that nobody else
\* held when the call began
FreshPublish(c) ==
    /\ pc[c] \in PubPcs \/ Published(c)
    /\ poolId_[e[c]] # 0
    /\ refOnEntry[c] = 0

\* C14 as claimed: a dynamic event published with reference counter 0 to a
\* signal with subscribers is, when the publish returns, reclaimed: its
\* counter is 0 again and its block is in the pool.
C14_ReclaimedAfterDelivery ==
    \A c \in Ctx :
        (FreshPublish(c) /\ Published(c) /\ posted[c] # <<>>) =>
            /\ refCtr_[e[c]] = 0
            /\ inPool[e[c]]

\* C14, amended: the publish raises the counter to 1 before the first post
\* and posts in descending priority; when it returns the counter is the
\* number of references the subscribers still hold, and the block is in the
\* pool only if that number is 0.
C14_CounterEqualsHolders ==
    \A c \in Ctx :
        FreshPublish(c) =>
            /\ (pc[c] \in {"pub_byte", "pub_lock", "pub_post"} /\ posted[c] = <<>>)
                   => refCtr_[e[c]] = 1
            /\ \A j \in 1..Len(posted[c]), k \in 1..Len(posted[c]) :
                   j < k => posted[c][j] > posted[c][k]
            /\ (Published(c) /\ posted[c] # <<>>) =>
                   /\ refCtr_[e[c]] = Holders(e[c])
                   /\ inPool[e[c]] <=> Holders(e[c]) = 0

\* the publish of a fresh dynamic event of signal 6 to the subscribers 3 and
\* 1 has returned: both queues hold the event and the counter is 2
C14_Witness ==
    \E c \in Ctx :
        /\ FreshPublish(c)
        /\ Published(c)
        /\ sigOf[e[c]] = 6
        /\ posted[c] = <<3, 1>>
        /\ refCtr_[e[c]] = 2
        /\ ~inPool[e[c]]

\* C15: a publish with subscribers calls QF_SCHED_LOCK_ exactly once, before
\* its first post, and asks for the priority of the highest subscriber it
\* posts to; a publish never calls it twice.
C15_CeilingRaisedOnce ==
    \A c \in Ctx :
        (pc[c] \in PubPcs \/ Published(c)) =>
            /\ nLock[c] <= 1
            /\ pc[c] = "pub_post" => nLock[c] = 1
            /\ posted[c] # <<>> =>
                   /\ nLock[c] = 1
                   /\ lockReq[c] = posted[c][1]
                   /\ \A pp \in PostedSet(c) : pp <= lockReq[c]

\* a publish to two subscribers has returned after one lock at the priority
\* of the higher one, which is below that of another active object
C15_Witness ==
    \E c \in Ctx :
        /\ Published(c)
        /\ Len(posted[c]) = 2
        /\ nLock[c] = 1
        /\ \E pp \in Registered : lockReq[c] < pp

\* C16: a publish calls QF_SCHED_UNLOCK_ once if it called QF_SCHED_LOCK_ and
\* not at all otherwise, after its last post and before its QF_gc(); a
\* publish without subscribers calls neither; when the publish returns the
\* scheduler's ceiling is what it was when the publish was called.
C16_LockUnlockBalanced ==
    \A c \in Ctx :
        /\ pc[c] \in (PubPcs \ {"pub_gc"}) => nUnlock[c] = 0
        /\ pc[c] = "pub_gc" => (nUnlock[c] = nLock[c] /\ nGc[c] = 0)
        /\ Published(c) =>
               /\ nUnlock[c] = nLock[c]
               /\ posted[c] = <<>> => nLock[c] = 0
               /\ lockCeil = ceilOnEntry[c]

\* a publish that began while another publish held the lock has raised and
\* restored the ceiling and has returned
C16_Witness ==
    \E c \in Ctx :
        /\ Published(c)
        /\ nLock[c] = 1
        /\ nUnlock[c] = 1
        /\ ceilOnEntry[c] > 0

\* context c is between the first post of its publish and the end of the
\* traversal
Multicasting(c) == pc[c] \in {"pub_byte", "pub_post"} /\ posted[c] # <<>>

\* C17: while an active object is between the first and the last post of its
\* publish, no other active object at or below the priority of the highest
\* subscriber takes a step: none of them starts to handle an event.
C17_SubscribersHeldOff ==
    [][\A c \in Registered :
          Multicasting(c) =>
              \A d \in Registered \ {c} :
                  d <= posted[c][1] => (pc'[d] = pc[d] /\ cur'[d] = cur[d])]_vars

\* a subscriber above the publisher has the event in its queue and waits
\* while the publisher is about to post to the next subscriber
C17_Witness ==
    \E c \in Registered : \E d \in PostedSet(c) :
        /\ pc[c] = "pub_post"
        /\ d > c
        /\ pc[d] = "idle"
        /\ queue[d] # <<>>

\* C18: every bit set in a subscriber list is the bit of a priority whose
\* entry in QF_active_ is not null, and no bit is set in the list of a signal
\* below Q_USER_SIG; assertion 220 of QF_publish_ never fails.
C18_BitsOfRegisteredOnly ==
    /\ \A s \in Sigs :
          /\ Subscribers(s) \subseteq Registered
          /\ s < Q_USER_SIG => Subscribers(s) = {}
    /\ fatal # 220

\* a publish is at assertion 220 for a signal that all registered active
\* objects have subscribed to
C18_Witness ==
    \E c \in Ctx :
        /\ pc[c] = "pub_post"
        /\ Subscribers(sigOf[e[c]]) = Registered

\* C19: whatever the interleaving of the subscription services, every bit
\* of every subscriber list has the value that the last completed update of
\* that bit gave it.
C19_NoLostUpdate ==
    \A s \in Sigs : Subscribers(s) = want[s]

\* an active object has been preempted between the call of a subscription
\* service and its critical section by another one, which has updated the
\* same byte of the same subscriber list
C19_Witness ==
    \E c \in Ctx, d \in Ctx :
        /\ c < d
        /\ pc[c] \in {"sub_crit", "unsub_crit"}
        /\ pc[d] = "ret"
        /\ done[d] \in {"subscribe", "unsubscribe"}
        /\ sig[d] = sig[c]
        /\ i[d] = i[c]

\* C20: every turn of the loop of QActive_unsubscribeAll, which is one
\* critical section, changes the list of the one signal it is at and moves
\* to the next signal; between two turns the caller's bit is clear in the
\* lists of the signals already visited and untouched in the others.
C20_OneSignalPerCriticalSection ==
    [][\A c \in Ctx :
          /\ UnsubscribeAllTurn(c) =>
                /\ sig'[c] = sig[c] + 1
                /\ \A s \in Sigs \ {sig[c]} :
                       QF_subscrList_'[s] = QF_subscrList_[s]
          /\ pc[c] = "uall_loop" =>
                \A s \in Q_USER_SIG..(sig[c] - 1) : p[c] \notin Subscribers(s)]_vars

\* while QActive_unsubscribeAll is between signal 5, where it has cleared
\* the caller's bit, and signal 6, where the bit is still set, a publish of
\* signal 6 in another context has posted to the caller
C20_Witness ==
    \E c \in Ctx, d \in Ctx :
        /\ pc[c] = "uall_loop"
        /\ sig[c] = 6
        /\ wasSet[c]
        /\ p[c] \notin Subscribers(5)
        /\ p[c] \in Subscribers(6)
        /\ d # c
        /\ e[d] # NoEvt
        /\ sigOf[e[d]] = 6
        /\ p[c] \in PostedSet(d)

====
